---- MODULE Spec2Model ----
(***************************************************************************)
(* Model of legion-task: fork-join task graphs stored as ECS entities.     *)
(*                                                                         *)
(*   graph_builder.rs  Cons, remove_nil, _assemble, assemble               *)
(*   components.rs     TaskProgress, SingleEdge, MultiEdge, FinalTag,      *)
(*                     make_task, make_fork, join, add_prong, finalize     *)
(*   manager.rs        entity_is_complete, delete_*, maintain_*,           *)
(*                     the task manager system                             *)
(*   runner.rs         run_tasks                                           *)
(*                                                                         *)
(* An entity is a positive integer; 0 stands for Option::None.  Each       *)
(* component storage is a function whose domain is the set of entities     *)
(* that carry the component.  The command buffer is a FIFO of commands.    *)
(***************************************************************************)
EXTENDS Integers, Sequences, FiniteSets, TLC

\* ------------------------------------------------------------------ bounds
MaxDepth == 2
MaxSteps == 2
NumGraphs == 7
MaxData == 6
MaxTick == 5

\* --------------------------------------------------------------- constants
NoEntity == 0
Never == 0 - 1

Kinds == {"Noop", "PushValue"}

OnCompletion == {"None", "Delete", "DeleteDescendents"}

\* Let(v, F) is F(v), with v evaluated once whatever the number of uses.
Let(v, F(_)) == CHOOSE r \in {F(x) : x \in {v}} : TRUE

\* ------------------------------------------------------- Cons (the grammar)
Nil == <<"Nil">>
\* A Task leaf holds the payload the factory clones: its kind, the value it
\* pushes, and the number of invocations of run after which run returns true
\* (Never: run always returns false).
Task(k, v, n) == <<"Task", k, v, n>>
Seq2(h, t) == <<"Seq", h, t>>
Fork2(h, t) == <<"Fork", h, t>>

IsNil(c) == c[1] = "Nil"

RECURSIVE remove_nil(_)
remove_nil(c) ==
    IF c[1] \in {"Seq", "Fork"}
    THEN LET h == c[2]
             t == c[3]
         IN  IF IsNil(h) /\ IsNil(t) THEN Nil
             ELSE IF IsNil(h) THEN remove_nil(t)
             ELSE IF IsNil(t) THEN remove_nil(h)
             ELSE <<c[1], remove_nil(h), remove_nil(t)>>
    ELSE c

\* ----------------------------------------------------------------- commands
Command(op, e, x, s, n) == [op |-> op, e |-> e, x |-> x, s |-> s, n |-> n]

\* make_task: start_entity().with_component(TaskProgress::default())
\*            .with_component(task_component).build()
make_task(e, k, v, n) == Command("insert_task", e, v, k, n)
\* make_fork: start_entity().with_component(MultiEdge::default()).build()
make_fork(e) == Command("insert_fork", e, 0, "", 0)
\* join: exec_mut closure adding SingleEdge { child } to parent
\* (mutant: the edge is registered in the wrong direction)
join_Swapped(parent, child) == Command("join", child, parent, "", 0)
join(parent, child) == Command("join", parent, child, "", 0)
\* add_prong: exec_mut closure pushing prong on the fork's MultiEdge
add_prong(fork_entity, prong) == Command("add_prong", fork_entity, prong, "", 0)
\* finalize: add_component(entity, FinalTag { on_completion })
finalize(e, on_completion) == Command("finalize", e, 0, on_completion, 0)
\* the three commands the task manager enqueues
\* (mutant: the removal names the wrong component)
RemoveProgress_WrongComponent(e) == Command("remove_final", e, 0, "", 0)
RemoveProgress(e) == Command("remove_progress", e, 0, "", 0)
RemoveFinalTag(e) == Command("remove_final", e, 0, "", 0)
DeleteEntity(e) == Command("delete", e, 0, "", 0)

\* ---------------------------------------------------------------- _assemble
\* The builder state is the next free entity id, the commands enqueued so
\* far, and whether Cons::Nil was met (a panic).  The result adds the
\* (first, last) pair.
RECURSIVE _assemble(_, _, _)
\* (mutant: the last entity of a branch is made a prong even when it is
\* the fork entity itself)
_assemble_SelfProng(c, fork, b) ==
    IF b.panicked THEN [first |-> NoEntity, last |-> NoEntity, b |-> b]
    ELSE IF c[1] = "Seq" THEN
        Let(_assemble(c[2], NoEntity, b), LAMBDA head :
        Let(_assemble(c[3], NoEntity, head.b), LAMBDA tail :
            IF tail.b.panicked
            THEN [first |-> NoEntity, last |-> NoEntity, b |-> tail.b]
            ELSE [first |-> head.first, last |-> tail.last,
                  b |-> [tail.b EXCEPT
                           !.cmds = Append(@, join(tail.first, head.last))]]))
    ELSE IF c[1] = "Fork" THEN
        LET fork_entity == IF fork # NoEntity THEN fork ELSE b.next
            b0 == IF fork # NoEntity THEN b
                  ELSE [b EXCEPT !.next = @ + 1,
                                 !.cmds = Append(@, make_fork(fork_entity))]
        IN  Let(_assemble(c[2], fork_entity, b0), LAMBDA head :
            Let(_assemble(c[3], fork_entity, head.b), LAMBDA tail :
                LET c1 == Append(tail.b.cmds,
                                 add_prong(fork_entity, head.last))
                    c2 == Append(c1, add_prong(fork_entity, tail.last))
                IN  IF tail.b.panicked
                    THEN [first |-> NoEntity, last |-> NoEntity, b |-> tail.b]
                    ELSE [first |-> fork_entity, last |-> fork_entity,
                          b |-> [tail.b EXCEPT !.cmds = c2]]))
    ELSE IF c[1] = "Task" THEN
        [first |-> b.next, last |-> b.next,
         b |-> [b EXCEPT !.next = @ + 1,
                         !.cmds = Append(@, make_task(b.next, c[2], c[3], c[4]))]]
    ELSE [first |-> NoEntity, last |-> NoEntity,
          b |-> [b EXCEPT !.panicked = TRUE]]

\* (mutant: a Seq returns the first entity of its tail as its first)
_assemble_TailFirst(c, fork, b) ==
    IF b.panicked THEN [first |-> NoEntity, last |-> NoEntity, b |-> b]
    ELSE IF c[1] = "Seq" THEN
        Let(_assemble(c[2], NoEntity, b), LAMBDA head :
        Let(_assemble(c[3], NoEntity, head.b), LAMBDA tail :
            IF tail.b.panicked
            THEN [first |-> NoEntity, last |-> NoEntity, b |-> tail.b]
            ELSE [first |-> tail.first, last |-> tail.last,
                  b |-> [tail.b EXCEPT
                           !.cmds = Append(@, join(tail.first, head.last))]]))
    ELSE IF c[1] = "Fork" THEN
        LET fork_entity == IF fork # NoEntity THEN fork ELSE b.next
            b0 == IF fork # NoEntity THEN b
                  ELSE [b EXCEPT !.next = @ + 1,
                                 !.cmds = Append(@, make_fork(fork_entity))]
        IN  Let(_assemble(c[2], fork_entity, b0), LAMBDA head :
            Let(_assemble(c[3], fork_entity, head.b), LAMBDA tail :
                LET c1 == IF head.last # fork_entity
                          THEN Append(tail.b.cmds,
                                      add_prong(fork_entity, head.last))
                          ELSE tail.b.cmds
                    c2 == IF tail.last # fork_entity
                          THEN Append(c1, add_prong(fork_entity, tail.last))
                          ELSE c1
                IN  IF tail.b.panicked
                    THEN [first |-> NoEntity, last |-> NoEntity, b |-> tail.b]
                    ELSE [first |-> fork_entity, last |-> fork_entity,
                          b |-> [tail.b EXCEPT !.cmds = c2]]))
    ELSE IF c[1] = "Task" THEN
        [first |-> b.next, last |-> b.next,
         b |-> [b EXCEPT !.next = @ + 1,
                         !.cmds = Append(@, make_task(b.next, c[2], c[3], c[4]))]]
    ELSE [first |-> NoEntity, last |-> NoEntity,
          b |-> [b EXCEPT !.panicked = TRUE]]

\* (mutant: a Fork under a Fork makes a fork entity of its own)
_assemble_NoReuse(c, fork, b) ==
    IF b.panicked THEN [first |-> NoEntity, last |-> NoEntity, b |-> b]
    ELSE IF c[1] = "Seq" THEN
        Let(_assemble(c[2], NoEntity, b), LAMBDA head :
        Let(_assemble(c[3], NoEntity, head.b), LAMBDA tail :
            IF tail.b.panicked
            THEN [first |-> NoEntity, last |-> NoEntity, b |-> tail.b]
            ELSE [first |-> head.first, last |-> tail.last,
                  b |-> [tail.b EXCEPT
                           !.cmds = Append(@, join(tail.first, head.last))]]))
    ELSE IF c[1] = "Fork" THEN
        LET fork_entity == b.next
            b0 == [b EXCEPT !.next = @ + 1,
                          !.cmds = Append(@, make_fork(fork_entity))]
        IN  Let(_assemble(c[2], fork_entity, b0), LAMBDA head :
            Let(_assemble(c[3], fork_entity, head.b), LAMBDA tail :
                LET c1 == IF head.last # fork_entity
                          THEN Append(tail.b.cmds,
                                      add_prong(fork_entity, head.last))
                          ELSE tail.b.cmds
                    c2 == IF tail.last # fork_entity
                          THEN Append(c1, add_prong(fork_entity, tail.last))
                          ELSE c1
                IN  IF tail.b.panicked
                    THEN [first |-> NoEntity, last |-> NoEntity, b |-> tail.b]
                    ELSE [first |-> fork_entity, last |-> fork_entity,
                          b |-> [tail.b EXCEPT !.cmds = c2]]))
    ELSE IF c[1] = "Task" THEN
        [first |-> b.next, last |-> b.next,
         b |-> [b EXCEPT !.next = @ + 1,
                         !.cmds = Append(@, make_task(b.next, c[2], c[3], c[4]))]]
    ELSE [first |-> NoEntity, last |-> NoEntity,
          b |-> [b EXCEPT !.panicked = TRUE]]

_assemble(c, fork, b) ==
    IF b.panicked THEN [first |-> NoEntity, last |-> NoEntity, b |-> b]
    ELSE IF c[1] = "Seq" THEN
        Let(_assemble(c[2], NoEntity, b), LAMBDA head :
        Let(_assemble(c[3], NoEntity, head.b), LAMBDA tail :
            IF tail.b.panicked
            THEN [first |-> NoEntity, last |-> NoEntity, b |-> tail.b]
            ELSE [first |-> head.first, last |-> tail.last,
                  b |-> [tail.b EXCEPT
                           !.cmds = Append(@, join(tail.first, head.last))]]))
    ELSE IF c[1] = "Fork" THEN
        LET fork_entity == IF fork # NoEntity THEN fork ELSE b.next
            b0 == IF fork # NoEntity THEN b
                  ELSE [b EXCEPT !.next = @ + 1,
                                 !.cmds = Append(@, make_fork(fork_entity))]
        IN  Let(_assemble(c[2], fork_entity, b0), LAMBDA head :
            Let(_assemble(c[3], fork_entity, head.b), LAMBDA tail :
                LET c1 == IF head.last # fork_entity
                          THEN Append(tail.b.cmds,
                                      add_prong(fork_entity, head.last))
                          ELSE tail.b.cmds
                    c2 == IF tail.last # fork_entity
                          THEN Append(c1, add_prong(fork_entity, tail.last))
                          ELSE c1
                IN  IF tail.b.panicked
                    THEN [first |-> NoEntity, last |-> NoEntity, b |-> tail.b]
                    ELSE [first |-> fork_entity, last |-> fork_entity,
                          b |-> [tail.b EXCEPT !.cmds = c2]]))
    ELSE IF c[1] = "Task" THEN
        [first |-> b.next, last |-> b.next,
         b |-> [b EXCEPT !.next = @ + 1,
                         !.cmds = Append(@, make_task(b.next, c[2], c[3], c[4]))]]
    ELSE [first |-> NoEntity, last |-> NoEntity,
          b |-> [b EXCEPT !.panicked = TRUE]]

NewBuilder == [next |-> 1, cmds |-> <<>>, panicked |-> FALSE]

\* (mutant: the last entity is finalized although _assemble met Cons::Nil)
assemble_Unchecked(c, on_completion) ==
    Let(_assemble(remove_nil(c), NoEntity, NewBuilder), LAMBDA r :
        [root |-> r.last,
         cmds |-> Append(r.b.cmds, finalize(r.last, on_completion)),
         panicked |-> FALSE])

\* assemble: remove_nil, _assemble(None), finalize(last_entity).  After a
\* panic cmds is what had been enqueued when it was raised.
assemble(c, on_completion) ==
    Let(_assemble(remove_nil(c), NoEntity, NewBuilder), LAMBDA r :
        IF r.b.panicked
        THEN [root |-> NoEntity, cmds |-> r.b.cmds, panicked |-> TRUE]
        ELSE [root |-> r.last,
              cmds |-> Append(r.b.cmds, finalize(r.last, on_completion)),
              panicked |-> FALSE])

\* ---------------------------------------------------------------- the world
Put(f, k, v) == [x \in DOMAIN f \cup {k} |-> IF x = k THEN v ELSE f[x]]
Drop(f, k) == [x \in DOMAIN f \ {k} |-> f[x]]

EmptyWorld ==
    [alive |-> {}, progress |-> <<>>, payload |-> <<>>, single |-> <<>>,
     multi |-> <<>>, final |-> <<>>, panicked |-> FALSE]

\* TaskProgress::default()
NewProgress == [is_complete |-> FALSE, is_unblocked |-> FALSE]

\* The closure join hands to exec_mut.
\* (mutant: the new edge replaces the one the parent has)
WriteJoin_Overwrite(w, parent, child) ==
    IF parent \notin w.alive
    THEN [w EXCEPT !.panicked = TRUE]
    ELSE [w EXCEPT !.single = Put(@, parent, child)]

WriteJoin(w, parent, child) ==
    IF parent \in DOMAIN w.single \/ parent \notin w.alive
    THEN [w EXCEPT !.panicked = TRUE]
    ELSE [w EXCEPT !.single = Put(@, parent, child)]

\* The closure add_prong hands to exec_mut.
WriteProng(w, fork_entity, prong) ==
    IF fork_entity \notin DOMAIN w.multi
    THEN [w EXCEPT !.panicked = TRUE]
    ELSE [w EXCEPT !.multi[fork_entity] = Append(@, prong)]

\* One command of a command buffer, written to the world.
Write(w, c) ==
    IF c.op = "insert_task" THEN
        [w EXCEPT !.alive = @ \cup {c.e},
                  !.progress = Put(@, c.e, NewProgress),
                  !.payload = Put(@, c.e, [kind |-> c.s, value |-> c.x,
                                           was_run |-> FALSE, left |-> c.n])]
    ELSE IF c.op = "insert_fork" THEN
        [w EXCEPT !.alive = @ \cup {c.e}, !.multi = Put(@, c.e, <<>>)]
    ELSE IF c.op = "join" THEN WriteJoin(w, c.e, c.x)
    ELSE IF c.op = "add_prong" THEN WriteProng(w, c.e, c.x)
    ELSE IF c.op = "finalize" THEN
        IF c.e \in w.alive
        THEN [w EXCEPT !.final = Put(@, c.e, c.s)]
        ELSE w
    ELSE IF c.op = "remove_progress" THEN
        [w EXCEPT !.progress = Drop(@, c.e)]
    ELSE IF c.op = "remove_final" THEN
        [w EXCEPT !.final = Drop(@, c.e)]
    ELSE \* "delete"
        [w EXCEPT !.alive = @ \ {c.e},
                  !.progress = Drop(@, c.e),
                  !.payload = Drop(@, c.e),
                  !.single = Drop(@, c.e),
                  !.multi = Drop(@, c.e),
                  !.final = Drop(@, c.e)]

\* Flushing a command buffer: the commands in enqueue order; a panic aborts.
RECURSIVE WriteAll(_, _)
WriteAll(w, cs) ==
    IF cs = <<>> \/ w.panicked THEN w
    ELSE Let(Write(w, Head(cs)), LAMBDA w1 : WriteAll(w1, Tail(cs)))

\* ------------------------------------------------------ completion queries
task_is_complete(w, entity) == entity \notin DOMAIN w.progress

RECURSIVE entity_is_complete(_, _)
\* (mutant: the loop over the prongs returns after the first one)
fork_is_complete_FirstProng(w, entity, multi_children) ==
    /\ entity \in DOMAIN w.single => entity_is_complete(w, w.single[entity])
    /\ Len(multi_children) > 0 => entity_is_complete(w, multi_children[1])

fork_is_complete(w, entity, multi_children) ==
    /\ entity \in DOMAIN w.single => entity_is_complete(w, w.single[entity])
    /\ \A i \in 1..Len(multi_children) :
           entity_is_complete(w, multi_children[i])

entity_is_complete(w, entity) ==
    IF entity \in DOMAIN w.multi
    THEN fork_is_complete(w, entity, w.multi[entity])
    ELSE task_is_complete(w, entity)

\* ----------------------------------------------------------------- deletion
\* Both functions only enqueue; they return the extended command buffer.
RECURSIVE delete_entity_and_descendents(_, _, _)
RECURSIVE DeleteEach(_, _, _, _)
DeleteEach(cmds, w, children, i) ==
    IF i > Len(children) THEN cmds
    ELSE Let(delete_entity_and_descendents(cmds, w, children[i]),
             LAMBDA c1 : DeleteEach(c1, w, children, i + 1))

\* (mutant: the entity itself is deleted as well)
delete_descendents_AndSelf(cmds, w, entity) ==
    Append(IF entity \in DOMAIN w.single
           THEN delete_entity_and_descendents(cmds, w, w.single[entity])
           ELSE cmds,
           DeleteEntity(entity))

delete_descendents(cmds, w, entity) ==
    Let(IF entity \in DOMAIN w.multi
        THEN DeleteEach(cmds, w, w.multi[entity], 1)
        ELSE cmds,
        LAMBDA c1 :
            IF entity \in DOMAIN w.single
            THEN delete_entity_and_descendents(c1, w, w.single[entity])
            ELSE c1)

\* (mutant: no is_alive test)
delete_entity_and_descendents_NoAliveTest(cmds, w, entity) ==
    Append(delete_descendents(cmds, w, entity), DeleteEntity(entity))

\* (mutant: the descendents are left behind)
delete_entity_and_descendents_Shallow(cmds, w, entity) ==
    IF entity \notin w.alive THEN cmds
    ELSE Append(cmds, DeleteEntity(entity))

delete_entity_and_descendents(cmds, w, entity) ==
    IF entity \notin w.alive THEN cmds
    ELSE Append(delete_descendents(cmds, w, entity), DeleteEntity(entity))

\* -------------------------------------------------------------- maintenance
\* The traversal state m: the world (only is_unblocked flags change in
\* place), the command buffer, and the entities the pass has visited.
\* Every maintain_* returns [ok |-> "entity is complete", m |-> state].
RECURSIVE maintain_entity_and_descendents(_, _)
RECURSIVE MaintainEach(_, _, _, _)

\* (mutant: the task is unblocked whatever its child returned)
maintain_task_and_descendents_Eager(m, entity) ==
    IF entity \notin DOMAIN m.w.progress
    THEN [ok |-> TRUE, m |-> m]
    ELSE IF m.w.progress[entity].is_complete
    THEN [ok |-> TRUE,
          m |-> [m EXCEPT !.cmds = Append(@, RemoveProgress(entity))]]
    ELSE IF m.w.progress[entity].is_unblocked
    THEN [ok |-> FALSE, m |-> m]
    ELSE Let(IF entity \in DOMAIN m.w.single
             THEN maintain_entity_and_descendents(m, m.w.single[entity])
             ELSE [ok |-> TRUE, m |-> m],
             LAMBDA child :
                 [ok |-> FALSE,
                  m |-> [child.m EXCEPT
                           !.w.progress[entity].is_unblocked = TRUE]])

\* (mutant: is_unblocked is tested before is_complete)
maintain_task_and_descendents_UnblockedFirst(m, entity) ==
    IF entity \notin DOMAIN m.w.progress
    THEN [ok |-> TRUE, m |-> m]
    ELSE IF m.w.progress[entity].is_unblocked
    THEN [ok |-> FALSE, m |-> m]
    ELSE IF m.w.progress[entity].is_complete
    THEN [ok |-> TRUE,
          m |-> [m EXCEPT !.cmds = Append(@, RemoveProgress(entity))]]
    ELSE Let(IF entity \in DOMAIN m.w.single
             THEN maintain_entity_and_descendents(m, m.w.single[entity])
             ELSE [ok |-> TRUE, m |-> m],
             LAMBDA child :
                 IF child.ok
                 THEN [ok |-> FALSE,
                       m |-> [child.m EXCEPT
                                !.w.progress[entity].is_unblocked = TRUE]]
                 ELSE [ok |-> FALSE, m |-> child.m])

\* (mutant: a task that is unblocked is taken for a complete one)
maintain_task_and_descendents_RunningIsComplete(m, entity) ==
    IF entity \notin DOMAIN m.w.progress
    THEN [ok |-> TRUE, m |-> m]
    ELSE IF m.w.progress[entity].is_complete
    THEN [ok |-> TRUE,
          m |-> [m EXCEPT !.cmds = Append(@, RemoveProgress(entity))]]
    ELSE IF m.w.progress[entity].is_unblocked
    THEN [ok |-> TRUE, m |-> m]
    ELSE Let(IF entity \in DOMAIN m.w.single
             THEN maintain_entity_and_descendents(m, m.w.single[entity])
             ELSE [ok |-> TRUE, m |-> m],
             LAMBDA child :
                 IF child.ok
                 THEN [ok |-> FALSE,
                       m |-> [child.m EXCEPT
                                !.w.progress[entity].is_unblocked = TRUE]]
                 ELSE [ok |-> FALSE, m |-> child.m])

maintain_task_and_descendents(m, entity) ==
    IF entity \notin DOMAIN m.w.progress
    THEN \* missing progress: complete and already removed
         [ok |-> TRUE, m |-> m]
    ELSE LET progress == m.w.progress[entity]
         IN  IF progress.is_complete
             THEN [ok |-> TRUE,
                   m |-> [m EXCEPT !.cmds = Append(@, RemoveProgress(entity))]]
             ELSE IF progress.is_unblocked
             THEN [ok |-> FALSE, m |-> m]
             ELSE Let(IF entity \in DOMAIN m.w.single
                      THEN maintain_entity_and_descendents(
                               m, m.w.single[entity])
                      ELSE [ok |-> TRUE, m |-> m],
                      LAMBDA child :
                          IF child.ok
                          THEN [ok |-> FALSE,
                                m |-> [child.m EXCEPT
                                  !.w.progress[entity].is_unblocked = TRUE]]
                          ELSE [ok |-> FALSE, m |-> child.m])

\* (mutant: the loop over the prongs stops at the first incomplete one)
MaintainEach_ShortCircuit(r, children, i, n) ==
    IF i > n \/ ~r.ok THEN r
    ELSE Let(maintain_entity_and_descendents(r.m, children[i]), LAMBDA c :
             MaintainEach([ok |-> r.ok /\ c.ok, m |-> c.m], children, i + 1, n))

\* (mutant: the loop ends after the first prong)
MaintainEach_FirstOnly(r, children, i, n) ==
    IF i > n \/ i > 1 THEN r
    ELSE Let(maintain_entity_and_descendents(r.m, children[i]), LAMBDA c :
             MaintainEach([ok |-> r.ok /\ c.ok, m |-> c.m], children, i + 1, n))

\* (mutant: the result of a prong is assigned, not accumulated)
MaintainEach_LastProng(r, children, i, n) ==
    IF i > n THEN r
    ELSE Let(maintain_entity_and_descendents(r.m, children[i]), LAMBDA c :
             MaintainEach([ok |-> c.ok, m |-> c.m], children, i + 1, n))

\* The prongs in MultiEdge order, all of them: r.ok accumulates with &=.
MaintainEach(r, children, i, n) ==
    IF i > n THEN r
    ELSE Let(maintain_entity_and_descendents(r.m, children[i]), LAMBDA c :
             MaintainEach([ok |-> r.ok /\ c.ok, m |-> c.m], children, i + 1, n))

\* (mutant: the prongs are maintained whatever the SingleEdge child returned)
maintain_fork_and_descendents_NoBarrier(m, entity, multi_edge_children) ==
    Let(IF entity \in DOMAIN m.w.single
        THEN maintain_entity_and_descendents(m, m.w.single[entity])
        ELSE [ok |-> TRUE, m |-> m],
        LAMBDA single :
            MaintainEach([ok |-> single.ok, m |-> single.m],
                         multi_edge_children, 1, Len(multi_edge_children)))

\* (mutant: the result is single_child_complete alone)
maintain_fork_and_descendents_SingleOnly(m, entity, multi_edge_children) ==
    Let(IF entity \in DOMAIN m.w.single
        THEN maintain_entity_and_descendents(m, m.w.single[entity])
        ELSE [ok |-> TRUE, m |-> m],
        LAMBDA single :
            IF single.ok
            THEN [ok |-> TRUE,
                  m |-> MaintainEach([ok |-> TRUE, m |-> single.m],
                                     multi_edge_children, 1,
                                     Len(multi_edge_children)).m]
            ELSE [ok |-> FALSE, m |-> single.m])

maintain_fork_and_descendents(m, entity, multi_edge_children) ==
    Let(IF entity \in DOMAIN m.w.single
        THEN maintain_entity_and_descendents(m, m.w.single[entity])
        ELSE [ok |-> TRUE, m |-> m],
        LAMBDA single :
            IF single.ok
            THEN MaintainEach([ok |-> TRUE, m |-> single.m],
                              multi_edge_children, 1, Len(multi_edge_children))
            ELSE [ok |-> FALSE, m |-> single.m])

\* (mutant: no test for MultiEdge, every entity is maintained as a task)
maintain_entity_and_descendents_TaskOnly(m, entity) ==
    maintain_task_and_descendents([m EXCEPT !.visited = @ \cup {entity}],
                                  entity)

maintain_entity_and_descendents(m, entity) ==
    Let([m EXCEPT !.visited = @ \cup {entity}], LAMBDA m1 :
        IF entity \in DOMAIN m1.w.multi
        THEN maintain_fork_and_descendents(m1, entity, m1.w.multi[entity])
        ELSE maintain_task_and_descendents(m1, entity))

\* (mutant: OnCompletion::None deletes the graph like OnCompletion::Delete)
MaintainFinal_NoneDeletes(m, entity, on_completion) ==
    Let(maintain_entity_and_descendents([w |-> m.w, cmds |-> m.cmds,
                                         visited |-> m.visited], entity),
        LAMBDA r :
            [w |-> r.m.w,
             cmds |-> IF ~r.ok THEN r.m.cmds
                      ELSE IF on_completion = "DeleteDescendents"
                      THEN delete_descendents(r.m.cmds, r.m.w, entity)
                      ELSE delete_entity_and_descendents(r.m.cmds, r.m.w,
                                                         entity),
             visited |-> r.m.visited,
             complete |-> IF r.ok THEN m.complete \cup {entity}
                          ELSE m.complete])

\* (mutant: the FinalTag of a complete graph is removed from the world at
\* once, not through the command buffer)
MaintainFinal_InPlace(m, entity, on_completion) ==
    Let(maintain_entity_and_descendents([w |-> m.w, cmds |-> m.cmds,
                                         visited |-> m.visited], entity),
        LAMBDA r :
            [w |-> IF r.ok THEN Write(r.m.w, RemoveFinalTag(entity))
                   ELSE r.m.w,
             cmds |-> IF ~r.ok THEN r.m.cmds
                      ELSE IF on_completion = "Delete"
                      THEN delete_entity_and_descendents(r.m.cmds, r.m.w,
                                                         entity)
                      ELSE IF on_completion = "DeleteDescendents"
                      THEN delete_descendents(r.m.cmds, r.m.w, entity)
                      ELSE Append(r.m.cmds, RemoveFinalTag(entity)),
             visited |-> r.m.visited,
             complete |-> IF r.ok THEN m.complete \cup {entity}
                          ELSE m.complete])

\* The body of the loop of the task manager system for one final entity.
MaintainFinal(m, entity, on_completion) ==
    Let(maintain_entity_and_descendents([w |-> m.w, cmds |-> m.cmds,
                                         visited |-> m.visited], entity),
        LAMBDA r :
            [w |-> r.m.w,
             cmds |-> IF ~r.ok THEN r.m.cmds
                      ELSE IF on_completion = "Delete"
                      THEN delete_entity_and_descendents(r.m.cmds, r.m.w,
                                                         entity)
                      ELSE IF on_completion = "DeleteDescendents"
                      THEN delete_descendents(r.m.cmds, r.m.w, entity)
                      ELSE Append(r.m.cmds, RemoveFinalTag(entity)),
             visited |-> r.m.visited,
             complete |-> IF r.ok THEN m.complete \cup {entity}
                          ELSE m.complete])

\* (mutant: the query lacks the FinalTag filter and yields every entity)
RECURSIVE MaintainOver(_, _, _)
MaintainOver(m, entities, tags) ==
    IF entities = {} THEN m
    ELSE LET e == CHOOSE x \in entities : TRUE
         IN  Let(MaintainFinal(m, e, IF e \in DOMAIN tags THEN tags[e]
                                     ELSE "None"),
                 LAMBDA m1 : MaintainOver(m1, entities \ {e}, tags))

MaintainAll_EveryEntity(m, finals, tags) == MaintainOver(m, m.w.alive, tags)

\* The loop over final_entities (collected before the loop), in the order
\* the query yields them.
RECURSIVE MaintainAll(_, _, _)
MaintainAll(m, finals, tags) ==
    IF finals = <<>> THEN m
    ELSE Let(MaintainFinal(m, Head(finals), tags[Head(finals)]),
             LAMBDA m1 : MaintainAll(m1, Tail(finals), tags))

\* ------------------------------------------------------------------ inputs
\* The task graphs of the tests of lib.rs (1-4) and further shapes.  n[v] is
\* the number of invocations task v needs before its run returns true and
\* k[v] is its payload kind.
Graph(i, n, k) ==
    LET T(v) == Task(k[v], v, n[v])
    IN  CASE i = 1 -> T(1)
          [] i = 2 -> Seq2(T(1), Seq2(T(2), T(3)))
          [] i = 3 -> Seq2(T(1), Seq2(Fork2(T(2), T(3)), T(4)))
          [] i = 4 -> Seq2(T(1), Seq2(Fork2(T(2), Fork2(T(3), T(4))), T(5)))
          [] i = 5 -> Fork2(Seq2(T(1), T(2)), Fork2(Nil, T(3)))
          [] i = 6 -> Seq2(Nil, Fork2(Nil, Nil))
          [] i = 7 -> Seq2(T(1), Fork2(Seq2(T(2), T(3)), Fork2(Nil, T(4))))
          [] OTHER -> Seq2(Fork2(T(1), T(2)), Fork2(T(3), Seq2(T(4), Nil)))

\* the number of tasks of the largest graph (join_fork_with_nested_fork)
MaxLeaves == 5

\* Every task is either quick (one invocation) or slow (s invocations, the
\* same s for all slow tasks of a graph).
StepMaps(steps) ==
    {[v \in 1..MaxLeaves |-> IF v \in S THEN s ELSE 1] :
        S \in SUBSET (1..MaxLeaves), s \in steps}

\* The payload kinds of the tests: Noop for the single task, PushValue for
\* the graphs whose invocation order is asserted; both kinds elsewhere.
TestKinds(i) ==
    [v \in 1..MaxLeaves |->
        IF i = 1 THEN "Noop"
        ELSE IF i \in 2..4 THEN "PushValue"
        ELSE IF v % 2 = 1 THEN "Noop" ELSE "PushValue"]

AllNoop == [v \in 1..MaxLeaves |-> "Noop"]

\* Some tasks never report completion, the others do at once.
StuckMaps ==
    {[v \in 1..MaxLeaves |-> IF v \in S THEN Never ELSE 1] :
        S \in SUBSET (1..MaxLeaves) \ {{}}}

StuckGraphs == {Graph(i, n, AllNoop) : i \in 1..NumGraphs, n \in StuckMaps}

Graphs(steps) ==
    {Graph(i, n, TestKinds(i)) : i \in 1..NumGraphs, n \in StepMaps(steps)}

NoopGraphs(steps) ==
    {Graph(i, n, AllNoop) : i \in 1..NumGraphs, n \in StepMaps(steps)}

\* Every expression of the grammar up to a depth, its tasks numbered from
\* left to right.
RECURSIVE ConsTrees(_)
ConsTrees(d) ==
    IF d = 0 THEN {Nil, Task("Noop", 0, 1)}
    ELSE LET S == ConsTrees(d - 1)
         IN  S \cup {<<op, h, t>> : op \in {"Seq", "Fork"}, h \in S, t \in S}

RECURSIVE Number(_, _)
Number(c, k) ==
    IF c[1] \in {"Seq", "Fork"}
    THEN Let(Number(c[2], k), LAMBDA h :
         Let(Number(c[3], h.next), LAMBDA t :
             [c |-> <<c[1], h.c, t.c>>, next |-> t.next]))
    ELSE IF c[1] = "Task" THEN [c |-> Task(c[2], k, c[4]), next |-> k + 1]
    ELSE [c |-> c, next |-> k]

Expressions(d) == {Number(c, 1).c : c \in ConsTrees(d)}

\* Graphs built without the grammar: the commands a system enqueues with
\* make_task, make_fork, join and add_prong, and the entity it finalizes.
Script(cmds, final) == <<"Script", cmds, final>>

\* The nested forks of the crate documentation.
T0 == 1
T1 == 2
TX == 3
TY == 4
TZ == 5
T2 == 6
FA == 7
FB == 8

DocGraph(n) ==
    Script(<<make_task(T0, "Noop", T0, n[T0]), make_task(T1, "Noop", T1, n[T1]),
             make_task(TX, "Noop", TX, n[TX]), make_task(TY, "Noop", TY, n[TY]),
             make_task(TZ, "Noop", TZ, n[TZ]), make_task(T2, "Noop", T2, n[T2]),
             make_fork(FA), make_fork(FB),
             join(FA, T0), add_prong(FA, TX), add_prong(FA, FB),
             join(FB, T1), add_prong(FB, TY), add_prong(FB, TZ),
             join(T2, FA)>>, T2)

\* A sequence of two tasks, the second one finalized, beside entities no
\* final entity reaches: a lone task (3), a task joined on top of the final
\* one (4), and a fork (5) with a prong (6).
StrayGraph(n) ==
    Script(<<make_task(1, "Noop", 1, n[1]), make_task(2, "PushValue", 2, n[2]),
             make_task(3, "Noop", 3, n[3]), make_task(4, "PushValue", 4, n[4]),
             make_fork(5), make_task(6, "Noop", 6, n[6]),
             join(2, 1), join(4, 2), add_prong(5, 6)>>, 2)

\* StrayGraph followed by one more command that breaks a contract: a join
\* on a parent that has a SingleEdge, or an add_prong on an entity that is
\* not a fork.
Misuses ==
    LET base == StrayGraph([v \in 1..6 |-> 1])[2]
        w == WriteAll(EmptyWorld, base)
    IN  {Script(Append(base, c), 2) :
            c \in {join(a, b) : a \in DOMAIN w.single, b \in w.alive}
                   \cup {add_prong(a, b) : a \in w.alive \ DOMAIN w.multi,
                                            b \in w.alive}}

OneSlow(tasks, steps) ==
    {[v \in 1..tasks |-> IF v = j THEN s ELSE 1] : j \in 1..tasks, s \in steps}

Scripts(steps) ==
    {DocGraph(n) : n \in OneSlow(6, steps)}
    \cup {StrayGraph(n) : n \in OneSlow(6, steps)}
    \cup Misuses

\* ------------------------------------------------------------------- state
VARIABLES
    world,     \* the ECS world: alive entities and the component storages
    cmd,       \* the command buffer of the task manager system
    iter,      \* per payload kind: the entities run_tasks has still to visit
    data,      \* the Vec<usize> resource the PushValue tasks push to
    graph,     \* the TaskGraph handed to assemble
    policy,    \* the OnCompletion handed to assemble
    root,      \* the entity assemble returned (NoEntity before assembly)
    done,      \* the systems of the schedule that ran in the current tick
    tick,      \* the number of completed executions of the schedule
    ran,       \* history: the entity whose run the last step invoked, or 0
    visited,   \* history: the entities the last maintenance pass visited
    complete,  \* history: final entities some maintenance pass saw complete
    finished,  \* history: the entities whose run has returned true
    stamp,     \* history: the tick of each task's first completion and of
               \* the maintenance pass that unblocked it
    deleted    \* history: the entity the last deletion request named and
               \* the entities alive when it was made

vars == <<world, cmd, iter, data, graph, policy, root, done, tick, ran,
          visited, complete, finished, stamp, deleted>>

NoDeletion == [entity |-> NoEntity, alive |-> {}]

Idle == \A k \in Kinds : iter[k] = {}

InitWith(graphs) ==
    /\ world = EmptyWorld
    /\ cmd = <<>>
    /\ iter = [k \in Kinds |-> {}]
    /\ data = <<>>
    /\ graph \in graphs
    /\ policy \in OnCompletion
    /\ root = NoEntity
    /\ done = {}
    /\ tick = 0
    /\ ran = 0
    /\ visited = {}
    /\ complete = {}
    /\ finished = {}
    /\ stamp = [done |-> <<>>, unblocked |-> <<>>]
    /\ deleted = NoDeletion

Init == InitWith(Graphs(1..MaxSteps))

\* The world right after assembly: the edges of the graph, kept for
\* reference after entities are deleted.
Assembled ==
    Let(assemble(graph, policy), LAMBDA a :
        IF a.panicked THEN [EmptyWorld EXCEPT !.panicked = TRUE]
        ELSE WriteAll(EmptyWorld, a.cmds))

\* ----------------------------------------------------------------- actions
\* assemble_task_graph: the assembler system followed by a flush.
Assemble ==
    /\ root = NoEntity /\ ~world.panicked
    /\ \E a \in {assemble(graph, policy)} :
           /\ world' = IF a.panicked THEN [world EXCEPT !.panicked = TRUE]
                       ELSE WriteAll(world, a.cmds)
           /\ root' = a.root
    /\ ran' = 0
    /\ UNCHANGED <<cmd, iter, data, graph, policy, done, tick, visited,
                   complete, finished, stamp, deleted>>

\* (mutant: the query leaves out the tasks that were run before)
Query_NotYetRun(k) ==
    {e \in DOMAIN world.progress \cap DOMAIN world.payload :
        world.payload[e].kind = k /\ ~world.payload[e].was_run}

\* (mutant: the query does not select the payload type)
Query_AnyKind(k) == DOMAIN world.progress \cap DOMAIN world.payload

Query(k) ==
    {e \in DOMAIN world.progress \cap DOMAIN world.payload :
        world.payload[e].kind = k}

\* run_tasks starts iterating task_query.
BeginRun(k) ==
    /\ root # NoEntity /\ ~world.panicked
    /\ iter[k] = {}
    /\ k = "PushValue" =>
         Len(data) + Cardinality({e \in Query(k) :
                                    world.progress[e].is_unblocked}) <= MaxData
    /\ iter' = [iter EXCEPT ![k] = Query(k)]
    /\ ran' = 0
    /\ UNCHANGED <<world, cmd, data, graph, policy, root, visited, complete,
                   finished, stamp, deleted>>

\* TaskComponent::run for the payload pl: the payload after the call, and
\* whether the call returned true.
RunPayload(pl) ==
    LET left == IF pl.left > 0 THEN pl.left - 1 ELSE pl.left
    IN  [payload |-> [pl EXCEPT !.was_run = TRUE, !.left = left],
         is_complete |-> left = 0]

\* (mutant: no test of is_unblocked)
RunTask_NoUnblockedTest(k, e) ==
    /\ e \in iter[k]
    /\ iter' = [iter EXCEPT ![k] = @ \ {e}]
    /\ LET r == RunPayload(world.payload[e])
       IN  /\ world' = [world EXCEPT
                          !.payload[e] = r.payload,
                          !.progress[e].is_complete = @ \/ r.is_complete]
           /\ data' = IF k = "PushValue"
                      THEN Append(data, world.payload[e].value)
                      ELSE data
           /\ ran' = e
           /\ finished' = IF r.is_complete THEN finished \cup {e}
                          ELSE finished
           /\ stamp' = IF r.is_complete /\ e \notin DOMAIN stamp.done
                       THEN [stamp EXCEPT !.done = Put(@, e, tick)]
                       ELSE stamp
    /\ UNCHANGED <<cmd, graph, policy, root, done, tick, visited, complete,
                   deleted>>

\* One iteration of the loop of run_tasks.
RunTask(k, e) ==
    /\ e \in iter[k]
    /\ iter' = [iter EXCEPT ![k] = @ \ {e}]
    /\ IF ~world.progress[e].is_unblocked
       THEN /\ ran' = 0
            /\ UNCHANGED <<world, data, finished, stamp>>
       ELSE LET r == RunPayload(world.payload[e])
            IN  /\ world' = [world EXCEPT
                               !.payload[e] = r.payload,
                               !.progress[e].is_complete = @ \/ r.is_complete]
                /\ data' = IF k = "PushValue"
                           THEN Append(data, world.payload[e].value)
                           ELSE data
                /\ ran' = e
                /\ finished' = IF r.is_complete THEN finished \cup {e}
                               ELSE finished
                /\ stamp' = IF r.is_complete /\ e \notin DOMAIN stamp.done
                            THEN [stamp EXCEPT !.done = Put(@, e, tick)]
                            ELSE stamp
    /\ UNCHANGED <<cmd, graph, policy, root, done, tick, visited, complete,
                   deleted>>

RECURSIVE Orders(_)
Orders(S) ==
    IF S = {} THEN {<<>>}
    ELSE UNION {{<<x>> \o o : o \in Orders(S \ {x})} : x \in S}

Unblocked(w) == {e \in DOMAIN w.progress : w.progress[e].is_unblocked}

\* The task manager system.  It shares TaskProgress with every runner, so it
\* runs only while no runner is iterating; its command buffer was flushed
\* since its previous run.
Maintenance ==
    /\ root # NoEntity /\ ~world.panicked
    /\ Idle /\ cmd = <<>>
    /\ \E finals \in Orders(DOMAIN world.final) :
         \E m \in {MaintainAll([w |-> world, cmds |-> cmd, visited |-> {},
                                complete |-> complete], finals, world.final)} :
             /\ world' = m.w
             /\ cmd' = m.cmds
             /\ visited' = m.visited
             /\ complete' = m.complete
             /\ stamp' = [stamp EXCEPT !.unblocked =
                            [e \in DOMAIN @ \cup Unblocked(m.w) |->
                                IF e \in DOMAIN @ THEN @[e] ELSE tick]]
    /\ ran' = 0
    /\ UNCHANGED <<iter, data, graph, policy, root, finished, deleted>>

\* A flush point of the schedule: the command buffer is written to the world.
FlushCmd ==
    /\ root # NoEntity /\ ~world.panicked
    /\ Idle
    /\ \E w \in {WriteAll(world, cmd)} : world' = w
    /\ cmd' = <<>>
    /\ ran' = 0
    /\ UNCHANGED <<iter, data, graph, policy, root, visited, complete,
                   finished, stamp, deleted>>

\* --- any interleaving of the passes
StartRun(k) == BeginRun(k) /\ Query(k) # {} /\ UNCHANGED <<done, tick>>
Maintain == Maintenance /\ UNCHANGED <<done, tick>>
Flush == FlushCmd /\ cmd # <<>> /\ UNCHANGED <<done, tick>>

Next ==
    \/ Assemble
    \/ \E k \in Kinds : StartRun(k)
    \/ \E k \in Kinds : \E e \in iter[k] : RunTask(k, e)
    \/ Maintain
    \/ Flush

Spec == Init /\ [][Next]_vars

\* --- the schedule of set_up: the runners, then the task manager, then the
\* flush at the end of the schedule
TickRun(k) ==
    /\ k \notin done /\ "task_manager" \notin done
    /\ BeginRun(k)
    /\ done' = done \cup {k}
    /\ UNCHANGED tick

TickMaintain ==
    /\ done = Kinds
    /\ Maintenance
    /\ done' = done \cup {"task_manager"}
    /\ UNCHANGED tick

TickFlush ==
    /\ "task_manager" \in done
    /\ tick < MaxTick
    /\ FlushCmd
    /\ done' = {}
    /\ tick' = tick + 1

InitTick == InitWith(Graphs({1}))

NextTick ==
    \/ Assemble
    \/ \E k \in Kinds : TickRun(k)
    \/ \E k \in Kinds : \E e \in iter[k] : RunTask(k, e)
    \/ TickMaintain
    \/ TickFlush

SpecTick == InitTick /\ [][NextTick]_vars

\* --- a schedule with the task manager before the runners
MTickMaintain ==
    /\ done = {}
    /\ Maintenance
    /\ done' = {"task_manager"}
    /\ UNCHANGED tick

MTickRun(k) ==
    /\ "task_manager" \in done /\ k \notin done
    /\ BeginRun(k)
    /\ done' = done \cup {k}
    /\ UNCHANGED tick

MTickFlush ==
    /\ done = Kinds \cup {"task_manager"}
    /\ tick < MaxTick
    /\ FlushCmd
    /\ done' = {}
    /\ tick' = tick + 1

InitTickM == InitWith(Graphs(1..MaxSteps))

NextTickM ==
    \/ Assemble
    \/ MTickMaintain
    \/ \E k \in Kinds : MTickRun(k)
    \/ \E k \in Kinds : \E e \in iter[k] : RunTask(k, e)
    \/ MTickFlush

SpecTickM == InitTickM /\ [][NextTickM]_vars

\* --- every pass recurs forever: the schedule is executed again and again,
\* each execution runs every system once and ends with a flush.  A runner
\* that has begun a pass finishes it; the task manager and the flush wait
\* for the runners, so they get strong fairness.
InitLive == InitWith(NoopGraphs(1..MaxSteps))

Fairness ==
    /\ \A k \in Kinds : WF_vars(StartRun(k))
    /\ WF_vars(\E k \in Kinds : \E e \in iter[k] : RunTask(k, e))
    /\ SF_vars(Maintain)
    /\ SF_vars(Flush)

SpecLive == InitLive /\ [][Next]_vars /\ Fairness

\* --- graphs with tasks whose run never returns true
InitStuck == InitWith(StuckGraphs)

SpecStuck == InitStuck /\ [][Next]_vars

\* --- deletion requests against a world in which other code deletes
\* entities on its own ("async deletion", manager.rs)
\* World::delete(e) by code outside the task systems.
Kill(e) ==
    /\ root # NoEntity /\ ~world.panicked
    /\ e \in world.alive
    /\ world' = Write(world, DeleteEntity(e))
    /\ deleted' = NoDeletion
    /\ ran' = 0
    /\ UNCHANGED <<cmd, iter, data, graph, policy, root, done, tick, visited,
                   complete, finished, stamp>>

\* A system calls delete_entity_and_descendents(cmd, world, e); e is any
\* entity the graph ever had, alive or not.
Delete(e) ==
    /\ root # NoEntity /\ ~world.panicked
    /\ cmd = <<>>
    /\ \E c \in {delete_entity_and_descendents(cmd, world, e)} : cmd' = c
    /\ deleted' = [entity |-> e, alive |-> world.alive]
    /\ ran' = 0
    /\ UNCHANGED <<world, iter, data, graph, policy, root, done, tick,
                   visited, complete, finished, stamp>>

InitGC == InitWith(Graphs({1}))

NextGC ==
    \/ Assemble
    \/ \E e \in Assembled.alive : Kill(e)
    \/ \E e \in Assembled.alive : Delete(e)
    \/ Flush

SpecGC == InitGC /\ [][NextGC]_vars

\* --- graphs built with make_task, make_fork, join, add_prong and finalize
\* The building system followed by a flush.
Build ==
    /\ root = NoEntity /\ ~world.panicked
    /\ graph[1] = "Script"
    /\ \E w \in {WriteAll(world, Append(graph[2], finalize(graph[3], policy)))} :
           world' = w
    /\ root' = graph[3]
    /\ ran' = 0
    /\ UNCHANGED <<cmd, iter, data, graph, policy, done, tick, visited,
                   complete, finished, stamp, deleted>>

InitScript == InitWith(Scripts(1..MaxSteps))

NextScript ==
    \/ Build
    \/ \E k \in Kinds : StartRun(k)
    \/ \E k \in Kinds : \E e \in iter[k] : RunTask(k, e)
    \/ Maintain
    \/ Flush

SpecScript == InitScript /\ [][NextScript]_vars

\* The world right after a script is written.
Built == WriteAll(EmptyWorld, Append(graph[2], finalize(graph[3], policy)))

\* --- assembly of any expression of the grammar
InitCons == InitWith(Expressions(MaxDepth))

NextCons == Assemble

SpecCons == InitCons /\ [][NextCons]_vars

\* ------------------------------------------------------ graph reachability
Children(w, e) ==
    (IF e \in DOMAIN w.single THEN {w.single[e]} ELSE {})
    \cup (IF e \in DOMAIN w.multi
          THEN {w.multi[e][i] : i \in 1..Len(w.multi[e])} ELSE {})

RECURSIVE Reach(_, _, _)
Reach(w, frontier, seen) ==
    IF frontier \subseteq seen THEN seen
    ELSE Reach(w, UNION {Children(w, e) : e \in frontier} \ (seen \cup frontier),
               seen \cup frontier)

\* e and everything below it via SingleEdge/MultiEdge
Subtree(w, e) == Reach(w, {e}, {})

Tasks(w) == DOMAIN w.payload
Forks(w) == DOMAIN w.multi

SingleSubtree(w, e) ==
    IF e \in DOMAIN w.single THEN Subtree(w, w.single[e]) ELSE {}

ProngSubtree(w, f) ==
    UNION {Subtree(w, w.multi[f][i]) : i \in 1..Len(w.multi[f])}

\* The tasks that must have reported completion before task e is invoked.
MustPrecede(w, e) ==
    Tasks(w) \cap
      (SingleSubtree(w, e)
       \cup UNION {SingleSubtree(w, f) : f \in {g \in Forks(w) :
                                                  e \in ProngSubtree(w, g)}})

\* ------------------------------------------------------------------ claims

\* C1: a task's run is never invoked before every task in the subtree of its
\* SingleEdge child has reported completion, and no task in a prong subtree
\* of a fork is invoked before every task in the subtree of that fork's
\* SingleEdge child has reported completion.
C1_DependenciesFirst ==
    [][ran' # 0 => MustPrecede(Assembled, ran') \subseteq finished]_vars

\* C1 witness: a task below a prong of a joined fork has been invoked.
C1_Witness ==
    /\ ran # 0
    /\ \E f \in Forks(Assembled) :
         /\ ran \in ProngSubtree(Assembled, f)
         /\ SingleSubtree(Assembled, f) \cap Tasks(Assembled) # {}
    /\ SingleSubtree(Assembled, ran) # {}

\* C2: run_tasks never invokes run on a task whose completion flag is
\* already set.
C2_NoRerun ==
    [][ran' # 0 => ~world.progress[ran'].is_complete]_vars

\* C3: Seq(A, B, C) under the Delete policy, the runners before the task
\* manager in every tick, every run completing at once: the invocations are
\* A, B, C, each once and in that order, and after four ticks the root has
\* been seen complete and none of A, B, C is alive.
Ones == [i \in 1..MaxLeaves |-> 1]

IsPrefix(s, t) ==
    Len(s) <= Len(t) /\ \A i \in 1..Len(s) : s[i] = t[i]

C3_SeqInOrder ==
    (graph = Graph(2, Ones, TestKinds(2)) /\ policy = "Delete") =>
        /\ IsPrefix(data, <<1, 2, 3>>)
        /\ tick >= 4 =>
             /\ data = <<1, 2, 3>>
             /\ root \in complete
             /\ entity_is_complete(world, root)
             /\ Tasks(Assembled) \cap world.alive = {}

\* C3 witness: the fourth tick of Seq(A, B, C) has ended.
C3_Witness ==
    /\ graph = Graph(2, Ones, TestKinds(2)) /\ policy = "Delete"
    /\ tick = 4 /\ data = <<1, 2, 3>> /\ world.alive = {}

\* C4: Seq(X, Fork(A, B), Y): X is invoked before A and B, Y after both;
\* both orders of A and B can be taken; within four ticks the graph is
\* complete and under the Delete policy nothing of it is alive.
C4_ForkJoinOrder ==
    graph = Graph(3, Ones, TestKinds(3)) =>
        /\ \E o \in {<<1, 2, 3, 4>>, <<1, 3, 2, 4>>} : IsPrefix(data, o)
        /\ {2, 3} \subseteq iter["PushValue"] /\ data = <<1>> =>
             /\ ENABLED RunTask("PushValue", 2)
             /\ ENABLED RunTask("PushValue", 3)
        /\ tick >= 4 =>
             /\ Len(data) = 4
             /\ root \in complete
             /\ entity_is_complete(world, root)
             /\ policy = "Delete" => world.alive = {}

\* C4 witness: B was invoked before A and the graph was deleted.
C4_Witness ==
    /\ graph = Graph(3, Ones, TestKinds(3)) /\ policy = "Delete"
    /\ tick = 4 /\ data = <<1, 3, 2, 4>> /\ world.alive = {}

\* C4: the other order of A and B is taken as well.
C4_AThenB ==
    /\ graph = Graph(3, Ones, TestKinds(3)) /\ policy = "Delete"
    /\ tick = 4 /\ data = <<1, 2, 3, 4>> /\ world.alive = {}

\* C5: Seq(X, Fork(A, Fork(B, C)), Y): the complete invocation sequences are
\* X, a permutation of {A, B, C}, Y, and the graph is complete within four
\* ticks.
Perms3 ==
    {s \in {<<1, a, b, c, 5>> : a, b, c \in 2..4} :
        {s[2], s[3], s[4]} = 2..4}

C5_NestedForkOrders ==
    graph = Graph(4, Ones, TestKinds(4)) =>
        /\ \E o \in Perms3 : IsPrefix(data, o)
        /\ tick >= 4 =>
             /\ data \in Perms3
             /\ root \in complete
             /\ entity_is_complete(world, root)

\* C5 witness: the three prongs were invoked in the order C, B, A.
C5_Witness ==
    /\ graph = Graph(4, Ones, TestKinds(4))
    /\ tick = 4 /\ data = <<1, 4, 3, 2, 5>> /\ root \in complete

\* C5: each of the other five orders of the prongs is taken as well.
C5_Order234 ==
    graph = Graph(4, Ones, TestKinds(4)) /\ tick = 4 /\ data = <<1, 2, 3, 4, 5>>
C5_Order243 ==
    graph = Graph(4, Ones, TestKinds(4)) /\ tick = 4 /\ data = <<1, 2, 4, 3, 5>>
C5_Order324 ==
    graph = Graph(4, Ones, TestKinds(4)) /\ tick = 4 /\ data = <<1, 3, 2, 4, 5>>
C5_Order342 ==
    graph = Graph(4, Ones, TestKinds(4)) /\ tick = 4 /\ data = <<1, 3, 4, 2, 5>>
C5_Order423 ==
    graph = Graph(4, Ones, TestKinds(4)) /\ tick = 4 /\ data = <<1, 4, 2, 3, 5>>

\* C6: a lone task is unblocked by the first maintenance pass; once a runner
\* has set its completion flag the next maintenance pass returns complete for
\* it and enqueues the removal of its TaskProgress, and after the flush
\* entity_is_complete holds of it.
Lone == remove_nil(graph)[1] = "Task"

C6_LoneTask ==
    [][Lone =>
        /\ (Maintain /\ root \in DOMAIN world.progress) =>
               world'.progress[root].is_unblocked
        /\ (Maintain /\ root \in DOMAIN world.progress
                     /\ world.progress[root].is_complete) =>
               /\ root \in complete'
               /\ cmd' # <<>>
               /\ cmd'[1] = RemoveProgress(root)
        /\ (Flush /\ root \in complete) =>
               /\ root \notin DOMAIN world'.progress
               /\ entity_is_complete(world', root)]_vars

\* C6 witness: the lone task was run, seen complete, and its TaskProgress
\* was removed by the flush.
C6_Witness ==
    /\ Lone /\ policy = "None"
    /\ root \in complete /\ cmd = <<>>
    /\ root \in world.alive /\ world.payload[root].was_run
    /\ root \notin DOMAIN world.progress

\* The on-completion policy of the root has taken effect.
PolicyApplied ==
    CASE policy = "Delete" -> world.alive = {}
      [] policy = "DeleteDescendents" ->
            world.alive = {root} /\ entity_is_complete(world, root)
      [] OTHER -> root \in world.alive /\ root \notin DOMAIN world.final

\* C7: when every pass recurs forever and every run reports completion after
\* finitely many invocations, the root of an assembled graph is eventually
\* seen complete by a maintenance pass and its policy is applied.
C7_EventuallyComplete ==
    (root # NoEntity) ~> (root \in complete /\ PolicyApplied)

\* C7 witness: a graph with a fork and a task that needed two invocations
\* has been completed and its policy applied.
C7_Witness ==
    /\ root # NoEntity /\ root \in complete /\ PolicyApplied
    /\ Forks(Assembled) # {}
    /\ \E e \in Tasks(Assembled) : Assembled.payload[e].left = 2

\* C8: under the Delete policy, once the root was seen complete and the
\* command buffer was flushed, no entity of the graph is alive; before the
\* root is seen complete every entity of the graph is alive.
C8_DeleteAll ==
    (policy = "Delete" /\ root # NoEntity) =>
        /\ (root \in complete /\ cmd = <<>>) =>
               Subtree(Assembled, root) \cap world.alive = {}
        /\ root \notin complete => world.alive = Assembled.alive

\* C8 witness: a graph with a fork was deleted.
C8_Witness ==
    /\ policy = "Delete" /\ root \in complete /\ cmd = <<>>
    /\ Forks(Assembled) # {} /\ world.alive = {}

\* What a maintenance pass started in the current state would do.
NextMaintenance ==
    MaintainAll([w |-> world, cmds |-> <<>>, visited |-> {},
                 complete |-> complete],
                CHOOSE o \in Orders(DOMAIN world.final) : TRUE, world.final)

Descendants(e) == Subtree(Assembled, e) \ {e}

\* The entities that were dead when the last deletion request was made.
DeadBefore == Assembled.alive \ deleted.alive

\* The alive set after the same deletion on the graph as assembled.
FullDeletion(e) ==
    WriteAll(Assembled,
             delete_entity_and_descendents(<<>>, Assembled, e)).alive

\* The request named an alive entity some of whose descendants, and nothing
\* else, were dead; its log has been applied.
PartialDeletionApplied ==
    /\ deleted.entity # NoEntity /\ cmd = <<>>
    /\ deleted.entity \in deleted.alive
    /\ DeadBefore # {}
    /\ DeadBefore \subseteq Descendants(deleted.entity)

\* Every descendant of a dead entity was dead as well.
DeadSubtrees ==
    \A d \in DeadBefore : Subtree(Assembled, d) \cap deleted.alive = {}

\* A deletion request for a dead entity enqueues nothing.
SecondDeletionIsNoop ==
    [][(deleted'.entity # NoEntity /\ deleted'.entity \notin world.alive)
          => cmd' = cmd]_vars

\* C11 as stated: delete_entity_and_descendents on an entity some of whose
\* descendants are already dead does not fail, leaves the alive set of the
\* deletion on the intact graph, and a second deletion changes nothing.
C11_AnyDeadDescendants ==
    /\ [](PartialDeletionApplied =>
            /\ ~world.panicked
            /\ world.alive = FullDeletion(deleted.entity))
    /\ SecondDeletionIsNoop

\* C11 amended: the same, provided every descendant of an already dead
\* entity is dead as well (the dead part is a union of whole subtrees).
C11_DeadSubtrees ==
    /\ []((PartialDeletionApplied /\ DeadSubtrees) =>
            /\ ~world.panicked
            /\ world.alive = FullDeletion(deleted.entity))
    /\ SecondDeletionIsNoop

\* C11 witness: a whole subtree of several entities was dead when the
\* deletion of the root of a graph with a fork was requested, and the log
\* was applied.
C11_Witness ==
    /\ PartialDeletionApplied /\ DeadSubtrees
    /\ Cardinality(DeadBefore) > 1
    /\ deleted.entity = root /\ Forks(Assembled) # {}
    /\ world.alive = {}

\* C11: the deletion of the root is requested again after it was applied.
C11_SecondRequest ==
    /\ deleted.entity = root /\ root # NoEntity
    /\ deleted.alive = {} /\ world.alive = {} /\ cmd = <<>>

\* C12: once the command buffer is applied, entity_is_complete holds of a
\* task exactly when it has no TaskProgress, and of a fork exactly when no
\* task reachable beneath it via SingleEdge/MultiEdge has a TaskProgress.
C12_EntityIsComplete ==
    (root # NoEntity /\ cmd = <<>>) =>
        \A e \in world.alive :
            entity_is_complete(world, e) <=>
                IF e \in Forks(world)
                THEN (Subtree(world, e) \ {e}) \cap DOMAIN world.progress = {}
                ELSE e \notin DOMAIN world.progress

\* C12 witness: a fork with several prongs is complete and alive while the
\* root task that joins it is not, and the buffer is applied.
C12_Witness ==
    /\ root # NoEntity /\ cmd = <<>>
    /\ root \in DOMAIN world.progress
    /\ \E f \in Forks(world) :
         /\ Len(world.multi[f]) > 1
         /\ f \in DOMAIN world.single
         /\ entity_is_complete(world, f)

\* C12: a fork one of whose prongs is complete and another is not.
C12_HalfDone ==
    /\ root # NoEntity /\ cmd = <<>>
    /\ \E f \in Forks(world) :
         /\ ~entity_is_complete(world, f)
         /\ \E i, j \in 1..Len(world.multi[f]) :
              /\ entity_is_complete(world, world.multi[f][i])
              /\ ~entity_is_complete(world, world.multi[f][j])

RECURSIVE HasTask(_)
HasTask(c) ==
    IF c[1] \in {"Seq", "Fork"} THEN HasTask(c[2]) \/ HasTask(c[3])
    ELSE c[1] = "Task"

\* The expression with every Nil deleted (Nil when it has no task).
RECURSIVE Strip(_)
Strip(c) ==
    IF c[1] \in {"Seq", "Fork"}
    THEN Let(Strip(c[2]), LAMBDA h :
         Let(Strip(c[3]), LAMBDA t :
             IF IsNil(h) THEN t
             ELSE IF IsNil(t) THEN h
             ELSE <<c[1], h, t>>))
    ELSE c

AssemblyDone == root # NoEntity \/ world # EmptyWorld

\* C13: for every expression with at least one Task leaf, whatever Nil
\* nodes it contains, assemble succeeds and builds the graph (entities,
\* SingleEdges, prongs, FinalTag) that assembling the expression without
\* its Nil nodes builds.
C13_NilFreeShape ==
    (AssemblyDone /\ HasTask(graph)) =>
        /\ ~world.panicked
        /\ world = WriteAll(EmptyWorld, assemble(Strip(graph), policy).cmds)
        /\ root = assemble(Strip(graph), policy).root

\* C13: expressions with Nil nodes on both sides of a task are assembled
\* as their Nil-free form.
C13_Assembled ==
    /\ root # NoEntity /\ Strip(graph) # graph
    /\ graph[1] = "Seq" /\ graph[2][1] = "Seq" /\ graph[3][1] = "Fork"
    /\ Cardinality(world.alive) = 2
    /\ world = WriteAll(EmptyWorld, assemble(Strip(graph), policy).cmds)

\* C14: assemble of an expression without a Task leaf panics; no finalize
\* command is enqueued and no entity has a FinalTag.
C14_NoTaskPanics ==
    (AssemblyDone /\ ~HasTask(graph)) =>
        /\ world.panicked
        /\ root = NoEntity
        /\ DOMAIN world.final = {}
        /\ \A i \in 1..Len(assemble(graph, policy).cmds) :
               assemble(graph, policy).cmds[i].op # "finalize"

\* C14 witness: a tree of Nil leaves whose assembly had created a fork
\* entity when it panicked.
C14_Witness ==
    /\ world.panicked /\ ~HasTask(graph)
    /\ graph[1] = "Fork" /\ graph[2] # Nil
    /\ assemble(graph, policy).cmds # <<>>

\* The last command of a script and the world its other commands build.
LastCommand == graph[2][Len(graph[2])]
BeforeLast == WriteAll(EmptyWorld, SubSeq(graph[2], 1, Len(graph[2]) - 1))

\* C15: a join on a parent that has a SingleEdge panics and the parent
\* keeps its child; an add_prong on an entity without MultiEdge panics and
\* adds no edge; every other edge is as it was.
C15_EdgeContracts ==
    (graph[1] = "Script" /\ root # NoEntity) =>
        /\ (LastCommand.op = "join"
              /\ LastCommand.e \in DOMAIN BeforeLast.single) =>
                 /\ world.panicked
                 /\ world.single = BeforeLast.single
                 /\ world.multi = BeforeLast.multi
        /\ (LastCommand.op = "add_prong"
              /\ LastCommand.e \notin DOMAIN BeforeLast.multi) =>
                 /\ world.panicked
                 /\ world.single = BeforeLast.single
                 /\ world.multi = BeforeLast.multi

\* C15 witness: a second join on a parent was written; it panicked and the
\* parent has the child of the first join.
C15_Witness ==
    /\ graph[1] = "Script" /\ root # NoEntity /\ world.panicked
    /\ LastCommand.op = "join"
    /\ LastCommand.e \in DOMAIN world.single
    /\ world.single[LastCommand.e] # LastCommand.x

\* C15: an add_prong on a task was written and panicked.
C15_ProngOnTask ==
    /\ graph[1] = "Script" /\ root # NoEntity /\ world.panicked
    /\ LastCommand.op = "add_prong"
    /\ LastCommand.e \in DOMAIN world.progress
    /\ DOMAIN world.multi = DOMAIN BeforeLast.multi

\* The entities some final entity reaches via SingleEdge/MultiEdge.
FinalReach(w) == Reach(w, DOMAIN w.final, {})

\* C17: a task no final entity reaches is not unblocked by any maintenance
\* pass and not invoked by any runner pass.
C17_UnreachableIdle ==
    /\ [](\A e \in DOMAIN world.progress \ FinalReach(world) :
            ~world.progress[e].is_unblocked)
    /\ [][ran' # 0 => ran' \in FinalReach(world)]_vars

\* C17 witness: the finalized sequence has run and was seen complete, the
\* buffer is applied, and the three tasks outside it were never unblocked
\* or run.
C17_Witness ==
    /\ graph[1] = "Script" /\ root = 2 /\ ~world.panicked
    /\ root \in complete /\ cmd = <<>>
    /\ {1, 2} \subseteq finished
    /\ \A e \in {3, 4, 6} :
         /\ e \in DOMAIN world.progress
         /\ ~world.progress[e].is_unblocked
         /\ ~world.payload[e].was_run

\* C20: in the nested forks of the documentation t0 has completed before
\* t1, tx, ty or tz is invoked, t1 before ty or tz is invoked, and t1, tx,
\* ty and tz before t2 is invoked.
DocBuilt == graph[1] = "Script" /\ graph[3] = T2

C20_NestedForkDoc ==
    [][(DocBuilt /\ ran' # 0) =>
          /\ ran' \in {T1, TX, TY, TZ} => T0 \in finished
          /\ ran' \in {TY, TZ} => T1 \in finished
          /\ ran' = T2 => {T0, T1, TX, TY, TZ} \subseteq finished]_vars

\* C20 witness: t2 is invoked in a graph whose tz needed two invocations.
C20_Witness ==
    /\ DocBuilt /\ ran = T2
    /\ graph[2][TZ].n = 2 /\ {T0, T1, TX, TY, TZ} \subseteq finished

\* C16: is_unblocked changes only in a maintenance pass, and for a task
\* only when its dependencies had reported completion before the pass; a
\* task is invoked only in a later runner pass than those in which its
\* dependencies reported completion; with the task manager before the
\* runners in every tick, a task is unblocked in a later tick than the
\* ticks in which its dependencies reported completion.
C16_OnePassLatency ==
    /\ [][Unblocked(world') \ Unblocked(world) # {} =>
            /\ MTickMaintain
            /\ Let(Assembled, LAMBDA a :
                   \A e \in Unblocked(world') \ Unblocked(world) :
                       MustPrecede(a, e) \subseteq finished)]_vars
    /\ [][ran' # 0 =>
            \A d \in MustPrecede(Assembled, ran') :
                d \in DOMAIN stamp.done /\ stamp.done[d] < tick]_vars
    /\ [](DOMAIN stamp.unblocked # {} =>
            Let(Assembled, LAMBDA a :
                \A e \in DOMAIN stamp.unblocked :
                    \A d \in MustPrecede(a, e) :
                        d \in DOMAIN stamp.done
                            /\ stamp.done[d] < stamp.unblocked[e]))

\* C16 witness: a task below a prong of a fork, with several dependencies,
\* was unblocked in the tick after the one in which the last of them
\* reported completion, and has run.
C16_Witness ==
    /\ DOMAIN stamp.unblocked # {}
    /\ Let(Assembled, LAMBDA a :
           \E e \in DOMAIN stamp.unblocked :
               /\ Cardinality(MustPrecede(a, e)) > 1
               /\ \E f \in Forks(a) : e \in ProngSubtree(a, f)
               /\ \E d \in MustPrecede(a, e) :
                      stamp.unblocked[e] = stamp.done[d] + 1
               /\ e \in finished)

\* The tasks of kind k a runner pass has to invoke: they have TaskProgress,
\* are unblocked and have not reported completion.
Due(k) ==
    {e \in DOMAIN world.progress \cap DOMAIN world.payload :
        /\ world.payload[e].kind = k
        /\ world.progress[e].is_unblocked
        /\ ~world.progress[e].is_complete}

\* C18: a runner pass of kind k visits every task that is due when it
\* begins; within a pass a task is visited at most once; the visit of an
\* unblocked task invokes run exactly once and the visit of a task that is
\* not unblocked invokes nothing; only visits invoke.
C18_RunnerPass ==
    /\ [][\A k \in Kinds :
            /\ (iter[k] = {} /\ iter'[k] # {}) => Due(k) \subseteq iter'[k]
            /\ iter[k] # {} =>
                   /\ iter'[k] \subseteq iter[k]
                   /\ Cardinality(iter[k] \ iter'[k]) <= 1
            /\ \A e \in iter[k] \ iter'[k] :
                   IF world.progress[e].is_unblocked
                   THEN /\ ran' = e
                        /\ world'.payload[e].was_run
                        /\ world.payload[e].left > 0 =>
                               world'.payload[e].left
                                   = world.payload[e].left - 1
                        /\ k = "PushValue" =>
                               data' = Append(data, world.payload[e].value)
                   ELSE ran' = 0 /\ world' = world /\ data' = data]_vars
    /\ [][ran' # 0 =>
            /\ world.progress[ran'].is_unblocked
            /\ \E k \in Kinds : ran' \in iter[k] \ iter'[k]]_vars

\* C18 witness: a later pass has begun and is to visit a task that an
\* earlier pass invoked and that has not reported completion, together
\* with a task that is not unblocked.
C18_Witness ==
    \E k \in Kinds : \E e, b \in iter[k] :
        /\ e \in Due(k) /\ world.payload[e].was_run
        /\ ~world.progress[b].is_unblocked

\* The tasks of the assembled graph a whose run never returns true.
Stuck(a) == {e \in Tasks(a) : a.payload[e].left = Never}

\* The tasks that depend on a task whose run never returns true.
BehindStuck(a) ==
    Let(Stuck(a), LAMBDA stuck :
        {e \in Tasks(a) : MustPrecede(a, e) \cap stuck # {}})

\* C19: when some task never reports completion, no task that depends on
\* it is unblocked or invoked, the root is not seen complete, and every
\* entity of the graph stays alive and the root keeps its FinalTag.
C19_BlockedForever ==
    root # NoEntity =>
        Let(Assembled, LAMBDA a :
            Stuck(a) # {} =>
                /\ Let(BehindStuck(a), LAMBDA behind :
                       /\ \A e \in behind :
                              /\ e \in DOMAIN world.progress
                              /\ ~world.progress[e].is_unblocked
                              /\ ~world.payload[e].was_run
                       /\ ran \notin behind)
                /\ Stuck(a) \cap finished = {}
                /\ root \notin complete
                /\ world.alive = a.alive
                /\ DOMAIN world.final = {root})

\* C19 witness: one prong of a fork was run and never reports completion,
\* another prong has completed and lost its TaskProgress, and the task that
\* joins the fork is blocked.
C19_Witness ==
    /\ root # NoEntity /\ cmd = <<>>
    /\ Let(Assembled, LAMBDA a :
           /\ root \in BehindStuck(a)
           /\ \E f \in Forks(a) : \E i, j \in 1..Len(a.multi[f]) :
                /\ a.multi[f][i] \in Stuck(a)
                /\ world.payload[a.multi[f][i]].was_run
                /\ a.multi[f][j] \in finished
                /\ a.multi[f][j] \notin DOMAIN world.progress)

\* One iteration of the loop of run_tasks on entity e, as a function of the
\* world; a whole pass over the entities es, one after the other.
Visit(w, e) ==
    IF ~w.progress[e].is_unblocked THEN w
    ELSE Let(RunPayload(w.payload[e]), LAMBDA r :
             [w EXCEPT !.payload[e] = r.payload,
                       !.progress[e].is_complete = @ \/ r.is_complete])

RECURSIVE Pass(_, _)
Pass(w, es) ==
    IF es = {} THEN w
    ELSE LET e == CHOOSE x \in es : TRUE
         IN  Pass(Visit(w, e), es \ {e})

\* What the claim compares: the flags and the set of invoked tasks.
Outcome(w) ==
    [progress |-> w.progress,
     invoked |-> {e \in DOMAIN w.payload : w.payload[e].was_run}]

\* The outcome of finishing the passes one after the other, first a then b.
OneAfterTheOther(w, it, a, b) == Outcome(Pass(Pass(w, it[a]), it[b]))

\* C21: no entity is visited by the runner passes of two kinds; finishing
\* the two passes one after the other gives the same flags and invoked
\* tasks in either order; and every step of an interleaving leaves that
\* outcome as it was, so the interleaving ends in it.
C21_RunnersCommute ==
    /\ [](iter["Noop"] \cap iter["PushValue"] = {})
    /\ [](OneAfterTheOther(world, iter, "Noop", "PushValue")
            = OneAfterTheOther(world, iter, "PushValue", "Noop"))
    /\ [][(\E k \in Kinds : iter'[k] # iter[k] /\ iter[k] # {}) =>
            OneAfterTheOther(world', iter', "Noop", "PushValue")
                = OneAfterTheOther(world, iter, "Noop", "PushValue")]_vars

\* C21 witness: the passes of both kinds are under way, each with an
\* unblocked task still to visit, and the last step invoked a task.
C21_Witness ==
    /\ ran # 0
    /\ \E e \in iter["Noop"] \cap Due("Noop") :
       \E f \in iter["PushValue"] \cap Due("PushValue") : e # f

\* C22: is_unblocked, once true, stays true and is_complete, once set,
\* stays set for as long as the task has its TaskProgress; a TaskProgress
\* that was removed does not come back; is_complete is set only on a task
\* whose is_unblocked is true.
C22_FlagsMonotonic ==
    /\ [][root # NoEntity =>
            /\ DOMAIN world'.progress \subseteq DOMAIN world.progress
            /\ \A e \in DOMAIN world'.progress :
                   /\ world.progress[e].is_unblocked
                          => world'.progress[e].is_unblocked
                   /\ world.progress[e].is_complete
                          => world'.progress[e].is_complete
                   /\ (~world.progress[e].is_complete
                          /\ world'.progress[e].is_complete)
                          => world.progress[e].is_unblocked]_vars
    /\ [](\A e \in DOMAIN world.progress :
            world.progress[e].is_complete => world.progress[e].is_unblocked)

\* C22 witness: a task with both flags set is visited again by a runner
\* pass while another task is unblocked and not complete and a third one
\* is blocked.
C22_Witness ==
    \E a, b, c \in DOMAIN world.progress :
        /\ world.progress[a].is_complete /\ a \in UNION {iter[k] : k \in Kinds}
        /\ world.progress[b].is_unblocked /\ ~world.progress[b].is_complete
        /\ ~world.progress[c].is_unblocked
        /\ world.payload[b].was_run

\* C23: when a task is unblocked, every task in the subtree of its
\* SingleEdge child has lost its TaskProgress or has its completion flag
\* set and the removal of its TaskProgress in the command buffer.
C23_UnblockedMeansDone ==
    \A e \in Unblocked(world) :
        \A t \in SingleSubtree(world, e) \cap DOMAIN world.progress :
            /\ world.progress[t].is_complete
            /\ \E i \in 1..Len(cmd) : cmd[i] = RemoveProgress(t)

\* C23 witness: the task that joins a fork of several prongs is unblocked
\* while the removals of the prongs' TaskProgress are still enqueued.
C23_Witness ==
    \E e \in Unblocked(world) :
        /\ e \in DOMAIN world.single
        /\ world.single[e] \in DOMAIN world.multi
        /\ Cardinality(SingleSubtree(world, e) \cap DOMAIN world.progress) > 1

\* A task of world w is done: its TaskProgress is gone or is_complete is set.
Done(w, t) == t \notin DOMAIN w.progress \/ w.progress[t].is_complete

\* The SingleEdge child of fork f is complete, or f has none.
SingleDone(w, f) == \A t \in SingleSubtree(w, f) \cap Tasks(w) : Done(w, t)

Prongs(w, f) == {w.multi[f][i] : i \in 1..Len(w.multi[f])}

\* C24: for every fork a maintenance pass visits: when its SingleEdge child
\* is complete or absent, the pass visits every prong and leaves unblocked
\* every task beneath a prong that is not done and whose dependencies all
\* are; when its SingleEdge child is incomplete, the pass visits no prong and
\* no task beneath a prong is unblocked.
C24_AllProngs ==
    [][Maintain =>
         \A f \in visited' \cap Forks(world) :
            IF SingleDone(world, f)
            THEN /\ Prongs(world, f) \subseteq visited'
                 /\ \A t \in ProngSubtree(world, f) \cap DOMAIN world.progress :
                        (/\ ~Done(world, t)
                         /\ \A d \in MustPrecede(world, t) : Done(world, d))
                            => world'.progress[t].is_unblocked
            ELSE /\ Prongs(world, f) \cap visited' = {}
                 /\ ProngSubtree(world, f) \cap Unblocked(world') = {}]_vars

\* C24 witness: the last pass visited a fork and both of its prongs, the
\* first of which is unblocked and not complete, and the second, a chain,
\* was unblocked at its first task.
C24_Witness ==
    /\ cmd # <<>>
    /\ \E f \in visited \cap Forks(world) :
         /\ Len(world.multi[f]) > 1
         /\ Prongs(world, f) \subseteq visited
         /\ \E p, q \in Prongs(world, f) :
              /\ p # q
              /\ p \in Unblocked(world) /\ ~world.progress[p].is_complete
              /\ q \in DOMAIN world.single /\ q \in DOMAIN world.progress
              /\ ~world.progress[q].is_unblocked
              /\ world.single[q] \in Unblocked(world)

\* C24: a pass visited a fork whose SingleEdge child is incomplete.
C24_Barrier ==
    \E f \in visited \cap Forks(world) :
        /\ ~SingleDone(world, f)
        /\ Prongs(world, f) \cap visited = {}

\* The entities the commands of kind op in the command buffer name.
Named(op) == {cmd[i].e : i \in {j \in 1..Len(cmd) : cmd[j].op = op}}

\* C25: a maintenance pass changes nothing in the world but is_unblocked
\* flags, from false to true: the alive entities, the edges, the FinalTags,
\* the entities holding a TaskProgress and their completion flags stay what
\* they were.  The flush of its command buffer removes exactly the entities
\* and components its commands name, and changes no flag.
C25_DeferredWrites ==
    /\ [][Maintain =>
            /\ world'.alive = world.alive
            /\ world'.single = world.single
            /\ world'.multi = world.multi
            /\ world'.final = world.final
            /\ world'.payload = world.payload
            /\ DOMAIN world'.progress = DOMAIN world.progress
            /\ \A t \in DOMAIN world.progress :
                  /\ world'.progress[t].is_complete
                        = world.progress[t].is_complete
                  /\ world.progress[t].is_unblocked
                        => world'.progress[t].is_unblocked]_vars
    /\ [][Flush =>
            LET gone == Named("delete")
                Keep(f, lost) == [x \in DOMAIN f \ lost |-> f[x]]
            IN  /\ world'.alive = world.alive \ gone
                /\ world'.single = Keep(world.single, gone)
                /\ world'.multi = Keep(world.multi, gone)
                /\ world'.final
                     = Keep(world.final, gone \cup Named("remove_final"))
                /\ world'.progress
                     = Keep(world.progress,
                            gone \cup Named("remove_progress"))]_vars

\* C25 witness: a pass has unblocked a task and left in the command buffer
\* the removal of a TaskProgress the world still holds.
C25_Witness ==
    /\ \E t \in Named("remove_progress") : t \in DOMAIN world.progress
    /\ \E t \in Unblocked(world) : ~world.progress[t].is_complete

\* C25: a pass has left in the command buffer the deletion of the final
\* entity and of a descendant, both still alive.
C25_DeletionPending ==
    \E e, d \in Named("delete") :
        /\ e # d
        /\ {e, d} \subseteq world.alive
        /\ e \in DOMAIN world.final

\* The non-Fork branches of the chain of directly nested Fork nodes headed
\* by c, left to right.
RECURSIVE Branches(_)
Branches(c) ==
    IF c[1] = "Fork" THEN Branches(c[2]) \o Branches(c[3]) ELSE <<c>>

\* The number of Fork nodes of c that are not a child of a Fork node.
RECURSIVE ChainHeads(_, _)
ChainHeads(c, under_fork) ==
    IF c[1] = "Fork"
    THEN (IF under_fork THEN 0 ELSE 1)
             + ChainHeads(c[2], TRUE) + ChainHeads(c[3], TRUE)
    ELSE IF c[1] = "Seq"
    THEN ChainHeads(c[2], FALSE) + ChainHeads(c[3], FALSE)
    ELSE 0

\* The expected graph of a Nil-free expression, chain by chain: entities are
\* numbered from next in creation order, a chain makes one fork entity and
\* its prongs are the last entities of its branches.
RECURSIVE Flat(_, _)
RECURSIVE FlatBranches(_, _, _, _)
Flat(c, next) ==
    IF c[1] = "Task" THEN [last |-> next, next |-> next + 1, multi |-> <<>>]
    ELSE IF c[1] = "Seq" THEN
        Let(Flat(c[2], next), LAMBDA h :
        Let(Flat(c[3], h.next), LAMBDA t :
            [last |-> t.last, next |-> t.next, multi |-> h.multi @@ t.multi]))
    ELSE FlatBranches(Branches(c), 1, next,
                      [last |-> next, next |-> next + 1,
                       multi |-> (next :> {})])

FlatBranches(bs, i, f, acc) ==
    IF i > Len(bs) THEN acc
    ELSE Let(Flat(bs[i], acc.next), LAMBDA r :
             FlatBranches(bs, i + 1, f,
                          [last |-> f, next |-> r.next,
                           multi |-> [(acc.multi @@ r.multi) EXCEPT
                                        ![f] = @ \cup {r.last}]]))

\* C26: after the assembly of an expression, there is one fork entity per
\* chain of directly nested Fork nodes (a Fork under a Seq heads a chain of
\* its own), the prongs of each are exactly the last entities of the chain's
\* non-Fork branches, each registered once, and no fork is its own prong.
C26_OneForkPerChain ==
    root # NoEntity =>
        Let(remove_nil(graph), LAMBDA c :
        Let(Flat(c, 1), LAMBDA r :
            /\ Cardinality(Forks(world)) = ChainHeads(c, FALSE)
            /\ Forks(world) = DOMAIN r.multi
            /\ \A f \in Forks(world) :
                  /\ Prongs(world, f) = r.multi[f]
                  /\ Len(world.multi[f]) = Cardinality(r.multi[f])
                  /\ f \notin Prongs(world, f)))

\* C26 witness: Fork nodes nested on both sides of a Fork made one fork
\* entity with four prongs.
C26_Witness ==
    /\ root # NoEntity
    /\ graph[1] = "Fork" /\ graph[2][1] = "Fork" /\ graph[3][1] = "Fork"
    /\ Cardinality(Forks(world)) = 1
    /\ \E f \in Forks(world) : Len(world.multi[f]) = 4

\* C26: the two Fork nodes under a Seq made a fork entity each.
C26_ForkUnderSeq ==
    /\ root # NoEntity
    /\ graph[1] = "Seq" /\ graph[2][1] = "Fork" /\ graph[3][1] = "Fork"
    /\ Cardinality(Forks(world)) = 2

\* ------------------------------------------- sequences of three expressions
RECURSIVE NilFree(_)
NilFree(c) ==
    IF c[1] \in {"Seq", "Fork"} THEN NilFree(c[2]) /\ NilFree(c[3])
    ELSE c[1] = "Task"

\* seq!(x, y, z) as the macro nests it, x, y and z being expressions without
\* empty_graph!() of depth d at most, one payload per Task leaf.
Triples(d) ==
    LET S == {c \in ConsTrees(d) : NilFree(c)}
    IN  {Number(Seq2(x, Seq2(y, z)), 1).c : x \in S, y \in S, z \in S}

InitSeq == InitWith(Triples(MaxDepth - 1))

NextSeq == Assemble

SpecSeq == InitSeq /\ [][NextSeq]_vars

\* Seq(x, Seq(y, z)) nested the other way: Seq(Seq(x, y), z).
Reassociated(c) == Seq2(Seq2(c[2], c[3][2]), c[3][3])

\* C27: Seq(x, Seq(y, z)) and Seq(Seq(x, y), z), for x, y and z without
\* Nil, assemble into the same world (entities, components and edges) and
\* the same final entity, and neither assembly panics.
C27_SeqAssociative ==
    root # NoEntity =>
        Let(assemble(Reassociated(graph), policy), LAMBDA a :
            /\ ~a.panicked /\ ~world.panicked
            /\ a.root = root
            /\ WriteAll(EmptyWorld, a.cmds) = world)

\* C27 witness: a sequence of a fork, a sequence and a fork was assembled,
\* and the commands of the two nestings differ.
C27_Witness ==
    /\ root # NoEntity
    /\ graph[2][1] = "Fork" /\ graph[3][2][1] = "Seq" /\ graph[3][3][1] = "Fork"
    /\ Cardinality(Forks(world)) = 2
    /\ root \in Forks(world) /\ root \in DOMAIN world.final
    /\ assemble(Reassociated(graph), policy).cmds # assemble(graph, policy).cmds

\* The payloads of the Task leaves of c, left to right.
RECURSIVE Leaves(_)
Leaves(c) ==
    IF c[1] \in {"Seq", "Fork"} THEN Leaves(c[2]) \o Leaves(c[3])
    ELSE IF c[1] = "Task" THEN <<c>>
    ELSE <<>>

\* C28: for every expression, the result of remove_nil is Nil or a tree
\* without Nil, its Task leaves are those of the expression in the same
\* order, and the assembly of an expression with a Task leaf does not
\* panic.
C28_NilRemoved ==
    /\ Let(remove_nil(graph), LAMBDA r :
            /\ IsNil(r) \/ NilFree(r)
            /\ Leaves(r) = Leaves(graph))
    /\ (AssemblyDone /\ HasTask(graph)) => ~world.panicked

\* C28: what remove_nil does keep: the Task leaves and their order; and
\* the result is without Nil when no Seq or Fork of the expression has only
\* Nil leaves beneath it.
C28_LeavesKept ==
    /\ Leaves(remove_nil(graph)) = Leaves(graph)
    /\ (root # NoEntity) => NilFree(remove_nil(graph))

\* The edges of world w that lead to entity e: the parents holding it as
\* SingleEdge child and the (fork, position) pairs holding it as prong.
EdgesTo(w, e) ==
    {<<p, 0>> : p \in {q \in DOMAIN w.single : w.single[q] = e}}
    \cup UNION {{<<f, i>> : i \in {j \in 1..Len(w.multi[f]) : w.multi[f][j] = e}}
                : f \in DOMAIN w.multi}

\* The entities a traversal from e meets, in order, following the SingleEdge
\* and then the prongs of each entity, to a depth of fuel edges.
RECURSIVE Walk(_, _, _)
RECURSIVE WalkEach(_, _, _, _)
Walk(w, e, fuel) ==
    <<e>> \o (IF fuel = 0 THEN <<>>
              ELSE (IF e \in DOMAIN w.single
                    THEN Walk(w, w.single[e], fuel - 1) ELSE <<>>)
                   \o (IF e \in DOMAIN w.multi
                       THEN WalkEach(w, w.multi[e], 1, fuel - 1) ELSE <<>>))

WalkEach(w, children, i, fuel) ==
    IF i > Len(children) THEN <<>>
    ELSE Walk(w, children[i], fuel) \o WalkEach(w, children, i + 1, fuel)

\* C29: the assembly of an expression without Nil does not panic, and its
\* entities form a tree rooted at the one entity with a FinalTag: one task
\* entity per Task leaf, every entity reachable from the root, the root the
\* child of no edge and every other entity the child of exactly one, so
\* that a traversal from the root meets every entity exactly once.
C29_Tree ==
    (AssemblyDone /\ NilFree(graph)) =>
        /\ ~world.panicked
        /\ DOMAIN world.final = {root}
        /\ Cardinality(Tasks(world)) = Len(Leaves(graph))
        /\ {world.payload[t].value : t \in Tasks(world)}
             = {Leaves(graph)[i][3] : i \in 1..Len(Leaves(graph))}
        /\ world.alive = Tasks(world) \cup Forks(world)
        /\ Subtree(world, root) = world.alive
        /\ EdgesTo(world, root) = {}
        /\ \A e \in world.alive \ {root} :
              Cardinality(EdgesTo(world, e)) = 1
        /\ Let(Walk(world, root, Cardinality(world.alive)), LAMBDA v :
               /\ Len(v) = Cardinality(world.alive)
               /\ {v[i] : i \in 1..Len(v)} = world.alive)

\* C29 witness: a fork of a sequence and a fork, four Task leaves, was
\* assembled into one fork entity over four task entities.
C29_Witness ==
    /\ root # NoEntity /\ NilFree(graph)
    /\ graph[1] = "Fork" /\ graph[2][1] = "Seq" /\ graph[3][1] = "Fork"
    /\ Cardinality(world.alive) = 5
    /\ Len(world.multi[root]) = 3
    /\ \E t \in Tasks(world) : t \in DOMAIN world.single

====
